---- MODULE Spec2Model ----
(***************************************************************************)
(* Connection lifecycle and connect() of firebolt.async_db.connection.     *)
(*                                                                         *)
(* One Connection object shared by cooperatively scheduled tasks (asyncio: *)
(* a task runs until it awaits; the only await of the lifecycle is the     *)
(* HTTP client teardown inside _aclose).  Every action is the code between *)
(* two suspension points of one task.                                      *)
(***************************************************************************)
EXTENDS Integers, Sequences, FiniteSets, TLC

\* ---------------------------------------------------------------- bounds
\* Cursors ever constructed on the connection.
MaxCursors == 2
\* Independently scheduled tasks sharing the connection.
NumTasks == 2
\* Calls of self._client.aclose() the model follows.
MaxTeardowns == 2

\* Bindings in one response of the bindings lookup.
MaxBindings == 2
\* Calls of connect, one after the other, with the same arguments.
MaxCalls == 2
\* Seconds the clock of the auth state machine runs.
MaxClock == 3
\* Credential exchanges one auth object sends.
MaxExchanges == 2

Tasks == 1..NumTasks
CursorIds == 1..MaxCursors

\* ------------------------------------------------------------ exceptions
NoExc == "none"
ConnectionClosedError == "ConnectionClosedError"
\* list.remove(x) on a list that does not hold x
ValueError == "ValueError"
\* a cursor's close() raising, and the HTTP client teardown raising
CursorCloseError == "CursorCloseError"
TeardownError == "TeardownError"

VARIABLES
    _cursors,       \* BaseConnection._cursors: list of the tracked cursors
    _is_closed,     \* BaseConnection._is_closed
    cursor_state,   \* per cursor: "none" (not constructed), "open", "closed"
    client_closes,  \* number of calls of self._client.aclose()
    client_closed,  \* the HTTP client teardown has completed
    pc,             \* per task: "ready", or the call ("aclose", "__aexit__")
                    \* in which it is suspended on the client teardown
    in_with,        \* per task: inside the body of `async with connection`
    interleaved,    \* per suspended task: another task ran since it suspended
    exc_val,        \* per task suspended in __aexit__: the exception of its block
    ret,            \* outcome of the most recent call that returned or raised
    cursor_refs     \* per cursor: the client and the connection it was given

VARIABLES
    args,           \* the arguments of the connect call
    c_pc,           \* connect: "call", the request it awaits, or "done"
    path,           \* resolution path taken: "url", "name", "default"
    requests,       \* the requests sent so far, in order
    res_client,     \* the resolution AsyncClient: "none", "open", "closed"
    account_id,     \* its cached account id (0: not resolved)
    lookup_id,      \* database id / engine id extracted from the last lookup
    result,         \* what connect raised or returned
    responses,      \* the responses received so far, in order
    auth_token,     \* the bearer token the resolution client's auth holds
    conn_engine_url,\* connect_inner's local engine_url
    calls,          \* connect calls made so far
    clients,        \* resolution clients constructed over all the calls
    account_lookups \* account-by-name requests sent over all the calls

connect_vars == <<args, c_pc, path, requests, res_client, account_id,
                  lookup_id, result, responses, auth_token, conn_engine_url,
                  calls,
                  clients, account_lookups>>

conn_vars == <<_cursors, _is_closed, cursor_state, client_closes, client_closed,
               pc, in_with, interleaved, exc_val, ret, cursor_refs>>

\* the auth state machine: one auth object, its client and the token store
VARIABLES
    grant,          \* the grant of the auth object
    auth_obj,       \* the auth the client is constructed with
    use_token_cache,\* the auth object's use_token_cache
    _token,         \* the auth object's token
    _expires,       \* the auth object's expiry
    time,           \* the clock
    store,          \* the token store's record under the credential's identity
    store_read,     \* the store has been read
    store_written,  \* the store has been written
    exchanges,      \* credential exchanges sent so far
    sent,           \* the last request transmitted: its kind and bearer token
    a_pc,           \* "new", "idle", "exchange" (awaiting the auth endpoint),
                    \* "failed" (the client could not be constructed)
    pending,        \* the request that waits for the exchange
    auth_exc        \* what the last request raised to its caller

auth_vars == <<grant, auth_obj, use_token_cache, _token, _expires, time, store,
               store_read, store_written, exchanges, sent, a_pc, pending,
               auth_exc>>

\* one AsyncClient shared by tasks: its account_id and the requests it sends
VARIABLES
    cached_id,      \* the value async_cached_property keeps (0: none yet)
    lock,           \* the task inside the property's loader (0: none)
    reader,         \* per task reading account_id: "idle", "waiting" (for the
                    \* loader), "fetching" (awaiting the response), "done"
    got,            \* per task: what `await client.account_id` gave it
    lookups,        \* account-by-name requests sent by the client
    given,          \* the last request handed to _send_handling_redirects
    wire            \* that request as passed on to httpx

client_vars == <<cached_id, lock, reader, got, lookups, given, wire>>

\* ------------------------------------------------------- sequence helpers
RECURSIVE remove(_, _)
\* list.remove(x): drops the first occurrence of x; the caller checks x is held
remove(s, x) ==
    IF s = <<>> THEN <<>>
    ELSE IF Head(s) = x THEN Tail(s)
    ELSE <<Head(s)>> \o remove(Tail(s), x)

Range(s) == {s[i] : i \in 1..Len(s)}

Created == {c \in CursorIds : cursor_state[c] # "none"}

\* a call's outcome: the method called, the exception raised, the cursor the call
\* was about (0: none), the value of self.closed the call read, whether no other
\* task ran during the call, the exception of the with block
RetBlk(op, exc, val, saw_closed, atomic, blk) ==
    [op |-> op, exc |-> exc, val |-> val, saw_closed |-> saw_closed,
     atomic |-> atomic, blk |-> blk]

Ret(op, exc, val, saw_closed) == RetBlk(op, exc, val, saw_closed, TRUE, NoExc)

\* task t takes a step: every other suspended task has been interleaved with
Ran(t) == [u \in Tasks |-> u # t /\ pc[u] # "ready"]

\* ------------------------------------------------------------- connection
\* a closed property that does not read the flag
closed_never == FALSE

\* BaseConnection.closed
closed == _is_closed

\* the connection object and the AsyncClient its __init__ constructs
self == "connection"
_client == "connection._client"

\* what a cursor not constructed yet refers to
NoRefs == [_client |-> "<None>", connection |-> "<None>"]

\* Cursor(client, connection): the cursor keeps both references
cursor_class(client, connection) ==
    [_client |-> client, connection |-> connection]

\* a cursor constructed on a client of its own
_cursor_new_own_client == cursor_class("AsyncClient()", self)

\* _cursor: `self.cursor_class(self._client, self, **kwargs)`
_cursor_new == cursor_class(_client, self)

\* list.remove taken for list.pop: the last element goes
list_remove_pop(s, x) ==
    IF x \in Range(s)
    THEN [cursors |-> SubSeq(s, 1, Len(s) - 1), exc |-> NoExc]
    ELSE [cursors |-> s, exc |-> ValueError]

ConnInit ==
    /\ cursor_refs = [c \in CursorIds |-> NoRefs]
    /\ _cursors = <<>>
    /\ _is_closed = FALSE
    /\ cursor_state = [c \in CursorIds |-> "none"]
    /\ client_closes = 0
    /\ client_closed = FALSE
    /\ pc = [t \in Tasks |-> "ready"]
    /\ in_with = [t \in Tasks |-> FALSE]
    /\ interleaved = [t \in Tasks |-> FALSE]
    /\ exc_val = [t \in Tasks |-> NoExc]
    /\ ret = Ret("__init__", NoExc, 0, FALSE)

\* list.remove(x): removes the first x, ValueError when the list holds no x
list_remove(s, x) ==
    IF x \in Range(s)
    THEN [cursors |-> remove(s, x), exc |-> NoExc]
    ELSE [cursors |-> s, exc |-> ValueError]

\* a _remove_cursor that leaves the list as it is
_remove_cursor_keeps(cursors, cursor) == [cursors |-> cursors, exc |-> NoExc]

\* BaseConnection._remove_cursor without its try/except
_remove_cursor_uncaught(cursors, cursor) == list_remove(cursors, cursor)

\* BaseConnection._remove_cursor, as a function of the list: the new list and
\* the exception that leaves the method (the ValueError is swallowed)
_remove_cursor(cursors, cursor) ==
    LET r == list_remove(cursors, cursor)
    IN  IF r.exc = ValueError THEN [cursors |-> r.cursors, exc |-> NoExc] ELSE r

\* Cursor.close(): marks the cursor closed, then has its connection drop it
Cursor_close(cursors, states, c) ==
    LET r == _remove_cursor(cursors, c)
    IN  [cursors |-> r.cursors,
         states |-> [states EXCEPT ![c] = "closed"],
         exc |-> r.exc]

RECURSIVE close_loop_live(_, _, _, _)
\* the loop run over the live list instead of the snapshot: each removal shifts
\* the list under the iterator, which then skips the next cursor
close_loop_live(snapshot, cursors, states, failAt) ==
    IF snapshot = <<>> THEN [cursors |-> cursors, states |-> states, exc |-> NoExc]
    ELSE LET r == Cursor_close(cursors, states, Head(snapshot))
         IN  close_loop_live(IF Len(snapshot) > 1 THEN Tail(Tail(snapshot)) ELSE <<>>,
                             r.cursors, r.states, failAt)

RECURSIVE close_loop(_, _, _, _)
\* `for c in cursors: c.close()` over the snapshot. The case of a cursor's close
\* raising is an input: the close of the failAt-th cursor of the snapshot raises
\* (failAt = 0: none does), and the exception leaves the loop
close_loop(snapshot, cursors, states, failAt) ==
    IF snapshot = <<>> THEN [cursors |-> cursors, states |-> states, exc |-> NoExc]
    ELSE IF failAt = 1
    THEN [cursors |-> cursors, states |-> states, exc |-> CursorCloseError]
    ELSE LET r == Cursor_close(cursors, states, Head(snapshot))
         IN  IF r.exc # NoExc THEN r
             ELSE close_loop(Tail(snapshot), r.cursors, r.states, failAt - 1)

\* BaseConnection._cursor / Connection.cursor
_cursor(t) ==
    /\ pc[t] = "ready"
    /\ interleaved' = Ran(t)
    /\ IF closed
       THEN /\ ret' = Ret("cursor", ConnectionClosedError, 0, TRUE)
            /\ UNCHANGED <<_cursors, cursor_state, cursor_refs>>
       ELSE /\ Created # CursorIds
            /\ LET c == Cardinality(Created) + 1
               IN  /\ cursor_state' = [cursor_state EXCEPT ![c] = "open"]
                   /\ cursor_refs' = [cursor_refs EXCEPT ![c] = _cursor_new]
                   /\ _cursors' = Append(_cursors, c)
                   /\ ret' = Ret("cursor", NoExc, 0, FALSE)
    /\ UNCHANGED <<_is_closed, client_closes, client_closed, pc, in_with,
                   exc_val>>
    /\ UNCHANGED <<connect_vars, auth_vars, client_vars>>

\* BaseConnection._aclose up to its await, called as `op` (aclose, or __aexit__
\* with the exception blk of the block in flight)
_aclose(t, op, blk) ==
    /\ pc[t] = "ready"
    /\ interleaved' = Ran(t)
    /\ IF closed
       THEN /\ ret' = RetBlk(op, NoExc, 0, TRUE, TRUE, blk)
            /\ UNCHANGED <<_cursors, cursor_state, client_closes, pc, exc_val>>
       ELSE \E failAt \in 0..Len(_cursors) :
            LET r == close_loop(_cursors, _cursors, cursor_state, failAt)
            IN  /\ _cursors' = r.cursors
                /\ cursor_state' = r.states
                /\ IF r.exc # NoExc
                   THEN /\ ret' = RetBlk(op, r.exc, 0, FALSE, TRUE, blk)
                        /\ UNCHANGED <<client_closes, pc, exc_val>>
                   ELSE /\ client_closes < MaxTeardowns
                        /\ client_closes' = client_closes + 1
                        /\ pc' = [pc EXCEPT ![t] = op]
                        /\ exc_val' = [exc_val EXCEPT ![t] = blk]
                        /\ UNCHANGED ret
    /\ UNCHANGED <<_is_closed, client_closed, cursor_refs>>

\* Connection.aclose
aclose(t) ==
    /\ _aclose(t, "aclose", NoExc)
    /\ UNCHANGED in_with
    /\ UNCHANGED <<connect_vars, auth_vars, client_vars>>

\* the flag set in a finally: also when the teardown raises
_aclose_resume_finally(t) ==
    /\ pc[t] # "ready"
    /\ pc' = [pc EXCEPT ![t] = "ready"]
    /\ interleaved' = Ran(t)
    /\ exc_val' = [exc_val EXCEPT ![t] = NoExc]
    /\ _is_closed' = TRUE
    /\ \E ok \in BOOLEAN :
        IF ok
        THEN /\ client_closed' = TRUE
             /\ ret' = RetBlk(pc[t], NoExc, 0, FALSE, ~interleaved[t],
                              exc_val[t])
        ELSE /\ ret' = RetBlk(pc[t], TeardownError, 0, FALSE, ~interleaved[t],
                              exc_val[t])
             /\ UNCHANGED client_closed
    /\ UNCHANGED <<_cursors, cursor_state, client_closes, in_with, cursor_refs>>
    /\ UNCHANGED <<connect_vars, auth_vars, client_vars>>

\* BaseConnection._aclose from `await self._client.aclose()` on: the teardown
\* completes and the flag is set, or the teardown raises
_aclose_resume(t) ==
    /\ pc[t] # "ready"
    /\ pc' = [pc EXCEPT ![t] = "ready"]
    /\ interleaved' = Ran(t)
    /\ exc_val' = [exc_val EXCEPT ![t] = NoExc]
    /\ \E ok \in BOOLEAN :
        IF ok
        THEN /\ client_closed' = TRUE
             /\ _is_closed' = TRUE
             /\ ret' = RetBlk(pc[t], NoExc, 0, FALSE, ~interleaved[t],
                              exc_val[t])
        ELSE /\ ret' = RetBlk(pc[t], TeardownError, 0, FALSE, ~interleaved[t],
                              exc_val[t])
             /\ UNCHANGED <<client_closed, _is_closed>>
    /\ UNCHANGED <<_cursors, cursor_state, client_closes, in_with, cursor_refs>>
    /\ UNCHANGED <<connect_vars, auth_vars, client_vars>>

\* commit without its closed check
commit_unchecked(t) ==
    /\ pc[t] = "ready"
    /\ interleaved' = Ran(t)
    /\ ret' = Ret("commit", NoExc, 0, closed)
    /\ UNCHANGED <<_cursors, _is_closed, cursor_state, client_closes,
                   client_closed, pc, in_with, exc_val, cursor_refs>>
    /\ UNCHANGED <<connect_vars, auth_vars, client_vars>>

\* BaseConnection.commit
commit(t) ==
    /\ pc[t] = "ready"
    /\ interleaved' = Ran(t)
    /\ IF closed
       THEN ret' = Ret("commit", ConnectionClosedError, 0, TRUE)
       ELSE ret' = Ret("commit", NoExc, 0, FALSE)
    /\ UNCHANGED <<_cursors, _is_closed, cursor_state, client_closes,
                   client_closed, pc, in_with, exc_val, cursor_refs>>
    /\ UNCHANGED <<connect_vars, auth_vars, client_vars>>

\* Connection.__aenter__
__aenter__(t) ==
    /\ pc[t] = "ready"
    /\ ~in_with[t]
    /\ interleaved' = Ran(t)
    /\ IF closed
       THEN /\ ret' = Ret("__aenter__", ConnectionClosedError, 0, TRUE)
            /\ UNCHANGED in_with
       ELSE /\ ret' = Ret("__aenter__", NoExc, 0, FALSE)
            /\ in_with' = [in_with EXCEPT ![t] = TRUE]
    /\ UNCHANGED <<_cursors, _is_closed, cursor_state, client_closes,
                   client_closed, pc, exc_val, cursor_refs>>
    /\ UNCHANGED <<connect_vars, auth_vars, client_vars>>

\* Connection.__aexit__: the block ended, normally or by raising exc
__aexit__(t, exc) ==
    /\ in_with[t]
    /\ in_with' = [in_with EXCEPT ![t] = FALSE]
    /\ _aclose(t, "__aexit__", exc)
    /\ UNCHANGED <<connect_vars, auth_vars, client_vars>>

\* a task closes one of the cursors it was given: cursor.close()
cursor_close(t, c) ==
    /\ pc[t] = "ready"
    /\ cursor_state[c] # "none"
    /\ interleaved' = Ran(t)
    /\ LET r == Cursor_close(_cursors, cursor_state, c)
       IN  /\ _cursors' = r.cursors
           /\ cursor_state' = r.states
           /\ ret' = Ret("close", r.exc, c, FALSE)
    /\ UNCHANGED <<_is_closed, client_closes, client_closed, pc, in_with,
                   exc_val, cursor_refs>>
    /\ UNCHANGED <<connect_vars, auth_vars, client_vars>>

\* connection._remove_cursor(c) called once more for a cursor that is closed
\* already (the method's one caller is Cursor.close(), which marks the cursor
\* closed before it calls)
remove_cursor(t, c) ==
    /\ pc[t] = "ready"
    /\ cursor_state[c] = "closed"
    /\ interleaved' = Ran(t)
    /\ LET r == _remove_cursor(_cursors, c)
       IN  /\ _cursors' = r.cursors
           /\ ret' = Ret("_remove_cursor", r.exc, c, FALSE)
    /\ UNCHANGED <<_is_closed, cursor_state, client_closes, client_closed,
                   pc, in_with, exc_val, cursor_refs>>
    /\ UNCHANGED <<connect_vars, auth_vars, client_vars>>

BlockExc == {NoExc, "BlockError"}

ConnNext ==
    \E t \in Tasks :
        \/ _cursor(t)
        \/ aclose(t)
        \/ _aclose_resume(t)
        \/ commit(t)
        \/ __aenter__(t)
        \/ \E exc \in BlockExc : __aexit__(t, exc)
        \/ \E c \in CursorIds : cursor_close(t, c)
        \/ \E c \in CursorIds : remove_cursor(t, c)

\* ---------------------------------------------------------------- connect
\* Python's None among the string arguments
None == "<None>"

\* truth value of an Optional[str]: None and "" are false
Truthy(v) == v # None /\ v # ""

ConfigurationError == "ConfigurationError"
TypeErr == "TypeError"
InterfaceError == "InterfaceError"
FireboltEngineError == "FireboltEngineError"
FireboltDatabaseError == "FireboltDatabaseError"
AccountNotFoundError == "AccountNotFoundError"
HTTPStatusError == "HTTPStatusError"
RequestError == "RequestError"
JSONDecodeError == "JSONDecodeError"
RuntimeError == "RuntimeError"
KeyError == "KeyError"

\* an exception in flight; status is the response's, for an HTTPStatusError
Exc(type, status) == [type |-> type, status |-> status]
Ok == Exc(NoExc, 0)

StartsWith(s, prefix) ==
    Len(s) >= Len(prefix) /\ SubSeq(s, 1, Len(prefix)) = prefix

\* fix_url_schema: https:// is prepended to a url without http:// or https://
fix_url_schema(url) ==
    IF StartsWith(url, "http://") \/ StartsWith(url, "https://")
    THEN url
    ELSE "https://" \o url

\* the arguments connect is called with
Args ==
    [database : {None, "", "db1"},
     username : {None, "", "u"},
     password : {None, "", "p"},
     access_token : {None, "", "token"},
     engine_name : {None, "", "e1"},
     engine_url : {None, "", "engine0.host", "http://engine0.host"},
     account_name : {None, "acc"},
     api_endpoint : {"api.app.firebolt.io", "https://api.app.firebolt.io"}]

\* what the backend (or the network) answers to one request: a status, a 200
\* whose body is no JSON, a 200 whose JSON lacks the field read, no answer
Responses == {"200", "200_malformed", "200_nokey", "404", "500", "RequestError"}

\* bindings of a 200 bindings response: binding i is of engine i, flags[i] is
\* its engine_is_default
BindingFlags == UNION {[1..n -> BOOLEAN] : n \in 0..MaxBindings}

EngineIds == 1..MaxBindings

\* the endpoint the backend reports for engine i, with or without a scheme
EngineEndpoint(i) ==
    (IF i % 2 = 0 THEN "http://" ELSE "") \o "engine" \o ToString(i) \o ".host"

\* the check that passes every engine selector
_validate_engine_name_and_url_never(engine_name, engine_url) == NoExc

\* _validate_engine_name_and_url: the exception it raises
_validate_engine_name_and_url(engine_name, engine_url) ==
    IF Truthy(engine_name) /\ Truthy(engine_url)
    THEN ConfigurationError
    ELSE NoExc

TupleAuth(username, password) == [kind |-> "tuple", a |-> username, b |-> password]
TokenAuth(token) == [kind |-> "Auth", a |-> token, b |-> None]
NoAuth == [kind |-> "none", a |-> None, b |-> None]

\* _get_auth with the access token winning over a username or password
_get_auth_token_wins(username, password, access_token) ==
    IF ~Truthy(access_token)
    THEN IF ~Truthy(username) \/ ~Truthy(password)
         THEN [exc |-> ConfigurationError, auth |-> NoAuth]
         ELSE [exc |-> NoExc, auth |-> TupleAuth(username, password)]
    ELSE [exc |-> NoExc, auth |-> TokenAuth(access_token)]

\* _get_auth: the exception it raises, or the auth it returns
_get_auth(username, password, access_token) ==
    IF ~Truthy(access_token)
    THEN IF ~Truthy(username) \/ ~Truthy(password)
         THEN [exc |-> ConfigurationError, auth |-> NoAuth]
         ELSE [exc |-> NoExc, auth |-> TupleAuth(username, password)]
    ELSE IF Truthy(username) \/ Truthy(password)
    THEN [exc |-> ConfigurationError, auth |-> NoAuth]
    ELSE [exc |-> NoExc, auth |-> TokenAuth(access_token)]

\* the database check testing for None only
database_required_none_only(database) ==
    IF database = None THEN ConfigurationError ELSE NoExc

\* connect_inner's `if not database`: the exception it raises
database_required(database) ==
    IF ~Truthy(database) THEN ConfigurationError ELSE NoExc

\* an AsyncClient that takes any auth httpx takes
AsyncClient_init_any_auth(auth, account_name_given) ==
    IF ~account_name_given THEN TypeErr ELSE NoExc

\* FireboltClientMixin.__init__ / _build_auth: the exception constructing an
\* AsyncClient raises. account_name is a required keyword; auth must be an Auth
AsyncClient_init(auth, account_name_given) ==
    IF ~account_name_given THEN TypeErr
    ELSE IF auth.kind # "Auth" THEN TypeErr
    ELSE NoExc

\* `response = await client.get(..); response.raise_for_status()` followed by
\* the read of the named fields of response.json(): the exception raised
fetch(r) ==
    CASE r = "RequestError" -> Exc(RequestError, 0)
      [] r = "404" -> Exc(HTTPStatusError, 404)
      [] r = "500" -> Exc(HTTPStatusError, 500)
      [] r = "200_malformed" -> Exc(JSONDecodeError, 0)
      [] r = "200_nokey" -> Exc(KeyError, 0)
      [] OTHER -> Ok

\* account_id without its 404 check
account_id_fetch_no_404(r) == fetch(r)

\* account_id taking every answered request for a success
account_id_fetch_lenient(r) ==
    IF r = "RequestError" THEN Exc(RequestError, 0) ELSE Ok

\* AsyncClient.account_id on the response r of the account-by-name request
account_id_fetch(r) ==
    CASE r = "RequestError" -> Exc(RequestError, 0)
      [] r = "404" -> Exc(AccountNotFoundError, 0)
      [] OTHER -> fetch(r)

\* the except clauses with no 404 case
resolve_except_no_404(e) ==
    IF e.type \in {JSONDecodeError, RequestError, RuntimeError, HTTPStatusError}
    THEN InterfaceError
    ELSE e.type

\* the except clauses with RequestError left out of the second
resolve_except_no_RequestError(e) ==
    IF e.type = HTTPStatusError
    THEN IF e.status # 404 THEN InterfaceError ELSE FireboltEngineError
    ELSE IF e.type \in {JSONDecodeError, RuntimeError}
    THEN InterfaceError
    ELSE e.type

\* the except clauses of _resolve_engine_url: what leaves the function
resolve_except(e) ==
    IF e.type = HTTPStatusError
    THEN IF e.status # 404 THEN InterfaceError ELSE FireboltEngineError
    ELSE IF e.type \in {JSONDecodeError, RequestError, RuntimeError}
    THEN InterfaceError
    ELSE e.type

\* the except clause with the 404 case of the by-name path
default_except_404(e) ==
    IF e.type = HTTPStatusError /\ e.status = 404 THEN FireboltDatabaseError
    ELSE IF e.type \in {JSONDecodeError, RequestError, RuntimeError,
                        HTTPStatusError, KeyError}
    THEN InterfaceError
    ELSE e.type

\* the except clause of _get_database_default_engine_url
default_except(e) ==
    IF e.type \in {JSONDecodeError, RequestError, RuntimeError, HTTPStatusError,
                   KeyError}
    THEN InterfaceError
    ELSE e.type

\* the auth and the api endpoint connect_inner computes from its arguments
AuthOf(a) == _get_auth(a.username, a.password, a.access_token).auth
ApiEndpointOf(a) == fix_url_schema(a.api_endpoint)

\* an exception leaving connect: its type, the name its message carries, the
\* exception it was raised for (the {e} of an InterfaceError's message)
RaisedFrom(exc, about, cause) ==
    [exc |-> exc, about |-> about, cause |-> cause, engine_url |-> None,
     database |-> None, api_endpoint |-> None]

Raised(exc) == RaisedFrom(exc, None, Ok)

\* a response as received: its status and, of a 200 with the fields read, the
\* id its body carries or the engine_is_default flags of its bindings
Resp(r, id, flags) ==
    IF r = "200" THEN [status |-> r, id |-> id, flags |-> flags]
    ELSE [status |-> r, id |-> 0, flags |-> <<>>]

\* the ids the backend may report for the account
AccountIds == {1, 2}

\* a cache that never holds the value
account_id_cached_never(cache) == FALSE

\* async_cached_property: the getter's value is kept once it has returned one
account_id_cached(cache) == cache # 0

\* the Connection constructed with the url as resolved
Connect_finish_raw(url) ==
    LET exc == AsyncClient_init(AuthOf(args), FALSE)
    IN  /\ c_pc' = "done"
        /\ conn_engine_url' = url
        /\ result' = IF exc # NoExc THEN Raised(exc)
                     ELSE [exc |-> NoExc, about |-> None, cause |-> Ok,
                           engine_url |-> url,
                           database |-> args.database,
                           api_endpoint |-> ApiEndpointOf(args)]

\* connect_inner from the resolved engine url on: the url is normalised and
\* the Connection constructed (BaseConnection.__init__ constructs its
\* AsyncClient without an account_name)
Connect_finish(url) ==
    LET exc == AsyncClient_init(AuthOf(args), FALSE)
    IN  /\ c_pc' = "done"
        /\ conn_engine_url' = fix_url_schema(url)
        /\ result' = IF exc # NoExc THEN Raised(exc)
                     ELSE [exc |-> NoExc, about |-> None, cause |-> Ok,
                           engine_url |-> fix_url_schema(url),
                           database |-> args.database,
                           api_endpoint |-> ApiEndpointOf(args)]

\* the exception that leaves a resolution function when e is raised inside its
\* try: the type the except clauses give it and the name in its message
Resolve_raise(e) ==
    LET type == IF path = "name" THEN resolve_except(e) ELSE default_except(e)
    IN  RaisedFrom(type,
                   CASE type = FireboltEngineError -> args.engine_name
                     [] type = FireboltDatabaseError -> args.database
                     [] type = AccountNotFoundError -> args.account_name
                     [] OTHER -> None,
                   e)

\* a failed step tried again instead of raised
Resolve_fail_retry(e) ==
    /\ c_pc' = c_pc
    /\ res_client' = res_client
    /\ result' = result

\* the except clauses run with the client left open
Resolve_fail_leaves_open(e) ==
    /\ c_pc' = "done"
    /\ res_client' = res_client
    /\ result' = Resolve_raise(e)

\* an exception e inside the `async with AsyncClient(...)` of a resolution
\* function: the except clauses run, the client is closed, connect raises
Resolve_fail(e) ==
    /\ c_pc' = "done"
    /\ res_client' = "closed"
    /\ result' = Resolve_raise(e)

\* `await client.account_id` followed by the request `then`: the cached id is
\* used, or the account-by-name request is sent first
Read_account_id(cache, then) ==
    IF account_id_cached(cache)
    THEN /\ c_pc' = then
         /\ requests' = Append(requests, then)
         /\ UNCHANGED account_lookups
    ELSE /\ c_pc' = IF then = "engine" THEN "account_id_engine" ELSE "account_id"
         /\ requests' = Append(requests, "account_by_name")
         /\ account_lookups' = account_lookups + 1

\* the token the auth of a new client holds: an auth made from an access token
\* holds that token from the start, with no exchange
Auth_token(auth) == auth.a

\* the first lookup of the resolution function of path p
FirstLookup(p) == IF p = "name" THEN "engine_by_name" ELSE "database_by_name"

\* the resolution function opens its client (a new instance: nothing cached,
\* its auth holding the access token) and reads client.account_id
Resolve_start(p) ==
    LET exc == AsyncClient_init(AuthOf(args), TRUE)
    IN  /\ path' = p
        /\ IF exc # NoExc
           THEN /\ c_pc' = "done"
                /\ result' = Raised(exc)
                /\ UNCHANGED <<requests, res_client, account_id, auth_token,
                               clients, account_lookups>>
           ELSE /\ res_client' = "open"
                /\ clients' = clients + 1
                /\ auth_token' = Auth_token(AuthOf(args))
                /\ account_id' = 0
                /\ Read_account_id(0, FirstLookup(p))
                /\ UNCHANGED result

\* connect_inner up to its first await
connect_inner ==
    /\ c_pc = "call"
    /\ LET a == args
           e1 == database_required(a.database)
           e2 == _validate_engine_name_and_url(a.engine_name, a.engine_url)
           e3 == _get_auth(a.username, a.password, a.access_token).exc
           exc == IF e1 # NoExc THEN e1 ELSE IF e2 # NoExc THEN e2 ELSE e3
       IN  IF exc # NoExc
           THEN /\ c_pc' = "done"
                /\ result' = Raised(exc)
                /\ UNCHANGED <<path, requests, res_client, account_id,
                               auth_token,
                               conn_engine_url, clients, account_lookups>>
           ELSE IF ~Truthy(a.engine_name) /\ ~Truthy(a.engine_url)
           THEN Resolve_start("default") /\ UNCHANGED conn_engine_url
           ELSE IF Truthy(a.engine_name)
           THEN Resolve_start("name") /\ UNCHANGED conn_engine_url
           ELSE /\ path' = "url"
                /\ Connect_finish(a.engine_url)
                /\ UNCHANGED <<requests, res_client, account_id, auth_token,
                               clients, account_lookups>>
    /\ UNCHANGED <<args, lookup_id, responses, calls>>
    /\ UNCHANGED <<conn_vars, auth_vars, client_vars>>

\* the account-by-name response arrives: AsyncClient.account_id returns the id
\* field (and caches it) or raises, and the request it was read for is sent
account_id_response(r, id) ==
    /\ c_pc \in {"account_id", "account_id_engine"}
    /\ responses' = Append(responses, Resp(r, id, <<>>))
    /\ LET e == account_id_fetch(r)
       IN  IF e # Ok
           THEN Resolve_fail(e) /\ UNCHANGED <<requests, account_id>>
           ELSE /\ account_id' = id
                /\ c_pc' = IF c_pc = "account_id_engine" THEN "engine"
                           ELSE FirstLookup(path)
                /\ requests' = Append(requests, c_pc')
                /\ UNCHANGED <<res_client, result>>
    /\ UNCHANGED <<args, path, lookup_id, auth_token, conn_engine_url, calls,
                   clients,
                   account_lookups>>
    /\ UNCHANGED <<conn_vars, auth_vars, client_vars>>

\* _get_engine_endpoint up to its request: client.account_id is read again
Get_engine_endpoint(engine_id) ==
    /\ lookup_id' = engine_id
    /\ Read_account_id(account_id, "engine")
    /\ UNCHANGED <<res_client, result>>

\* _resolve_engine_url: the engine-by-name response arrives; on success
\* _get_engine_endpoint is called with the engine id of the response
engine_by_name_response(r, engine_id) ==
    /\ c_pc = "engine_by_name"
    /\ responses' = Append(responses, Resp(r, engine_id, <<>>))
    /\ LET e == fetch(r)
       IN  IF e # Ok
           THEN /\ Resolve_fail(e)
                /\ UNCHANGED <<requests, lookup_id, account_lookups>>
           ELSE Get_engine_endpoint(engine_id)
    /\ UNCHANGED <<args, path, account_id, auth_token, conn_engine_url,
                   calls, clients>>
    /\ UNCHANGED <<conn_vars, auth_vars, client_vars>>

\* _get_database_default_engine_url: the database-by-name response arrives;
\* on success the bindings of the database id of the response are requested
database_by_name_response(r, database_id) ==
    /\ c_pc = "database_by_name"
    /\ responses' = Append(responses, Resp(r, database_id, <<>>))
    /\ LET e == fetch(r)
       IN  IF e # Ok
           THEN Resolve_fail(e) /\ UNCHANGED <<requests, lookup_id>>
           ELSE /\ lookup_id' = database_id
                /\ c_pc' = "bindings"
                /\ requests' = Append(requests, "bindings")
                /\ UNCHANGED <<res_client, result>>
    /\ UNCHANGED <<args, path, account_id, auth_token, conn_engine_url,
                   calls, clients,
                   account_lookups>>
    /\ UNCHANGED <<conn_vars, auth_vars, client_vars>>

\* the bindings flagged default, the last of the response first
default_engines_bindings_reversed(flags) ==
    SelectSeq([i \in 1..Len(flags) |-> Len(flags) + 1 - i], LAMBDA i : flags[i])

\* the bindings of the response, whatever their flag
default_engines_bindings_unfiltered(flags) == [i \in 1..Len(flags) |-> i]

\* the bindings flagged default, in the order of the response
default_engines_bindings(flags) ==
    SelectSeq([i \in 1..Len(flags) |-> i], LAMBDA i : flags[i])

\* _get_database_default_engine_url: the bindings response arrives; the first
\* binding flagged default names the engine
bindings_response(r, flags) ==
    /\ c_pc = "bindings"
    /\ responses' = Append(responses, Resp(r, 0, flags))
    /\ LET e == fetch(r)
       IN  IF e # Ok
           THEN /\ Resolve_fail(e)
                /\ UNCHANGED <<requests, lookup_id, account_lookups>>
           ELSE IF Len(default_engines_bindings(flags)) = 0
           THEN /\ Resolve_fail(Exc(FireboltDatabaseError, 0))
                /\ UNCHANGED <<requests, lookup_id, account_lookups>>
           ELSE Get_engine_endpoint(default_engines_bindings(flags)[1])
    /\ UNCHANGED <<args, path, account_id, auth_token, conn_engine_url,
                   calls, clients>>
    /\ UNCHANGED <<conn_vars, auth_vars, client_vars>>

\* what the backend knows of an engine besides its endpoint: whether it runs
\* and the database it is attached to
Engines == [status : {"Running", "Stopped"}, database : {"db1", "not_db1"}]

\* the response to the engine request: a 200 carries the engine
EngineResp(r, id, engine) ==
    IF r = "200"
    THEN [status |-> r, id |-> id, flags |-> <<>>, engine |-> engine]
    ELSE Resp(r, id, <<>>)

\* _get_engine_endpoint: the engine response arrives; on success the
\* resolution client is closed and connect_inner constructs the Connection
\* (of the engine in the response only its endpoint is read)
engine_response(r, engine) ==
    /\ c_pc = "engine"
    /\ responses' = Append(responses, EngineResp(r, lookup_id, engine))
    /\ LET e == fetch(r)
       IN  IF e # Ok
           THEN Resolve_fail(e) /\ UNCHANGED conn_engine_url
           ELSE /\ res_client' = "closed"
                /\ Connect_finish(EngineEndpoint(lookup_id))
    /\ UNCHANGED <<args, path, requests, account_id, lookup_id, auth_token,
                   calls,
                   clients, account_lookups>>
    /\ UNCHANGED <<conn_vars, auth_vars, client_vars>>

\* connect is called once more with the same arguments, after the call before
\* it has returned or raised
connect_again ==
    /\ c_pc = "done"
    /\ calls < MaxCalls
    /\ calls' = calls + 1
    /\ c_pc' = "call"
    /\ path' = "none"
    /\ requests' = <<>>
    /\ responses' = <<>>
    /\ res_client' = "none"
    /\ lookup_id' = 0
    /\ auth_token' = None
    /\ conn_engine_url' = args.engine_url
    /\ result' = Raised(NoExc)
    /\ UNCHANGED <<args, account_id, clients, account_lookups>>
    /\ UNCHANGED <<conn_vars, auth_vars, client_vars>>

ConnectInit ==
    /\ args \in Args
    /\ c_pc = "call"
    /\ path = "none"
    /\ requests = <<>>
    /\ res_client = "none"
    /\ account_id = 0
    /\ lookup_id = 0
    /\ result = Raised(NoExc)
    /\ responses = <<>>
    /\ auth_token = None
    /\ conn_engine_url = args.engine_url
    /\ calls = 1
    /\ clients = 0
    /\ account_lookups = 0

ConnectNext ==
    \/ connect_inner
    \/ \E r \in Responses, id \in AccountIds : account_id_response(r, id)
    \/ \E r \in Responses, i \in EngineIds : engine_by_name_response(r, i)
    \/ \E r \in Responses, id \in AccountIds : database_by_name_response(r, id)
    \/ \E r \in Responses, flags \in BindingFlags : bindings_response(r, flags)
    \/ \E r \in Responses, engine \in Engines : engine_response(r, engine)
    \/ connect_again

\* no connect call is in progress
NoConnect ==
    /\ args = <<>>
    /\ c_pc = "none"
    /\ path = "none"
    /\ requests = <<>>
    /\ res_client = "none"
    /\ account_id = 0
    /\ lookup_id = 0
    /\ result = <<>>
    /\ responses = <<>>
    /\ auth_token = None
    /\ conn_engine_url = None
    /\ calls = 0
    /\ clients = 0
    /\ account_lookups = 0

\* ------------------------------------------------------- auth state machine
\* One auth object, the client constructed with it and the persistent token
\* store. Times are seconds; a time or a duration is hi * Base + lo, which
\* reaches the 2^32 a time-to-live can be.
Base == 65536
Num(hi, lo) == [hi |-> hi, lo |-> lo]
Plus(m, n) ==
    [hi |-> m.hi + n.hi + ((m.lo + n.lo) \div Base), lo |-> (m.lo + n.lo) % Base]
Less(m, n) == m.hi < n.hi \/ (m.hi = n.hi /\ m.lo < n.lo)

\* seconds before its expiry from which a token counts as expired
SafetyMargin == 1

\* an expiry that never comes (no time is negative)
Never == Num(0 - 1, 0)

\* no record in the store under the credential's identity
NoRecord == [value |-> None, expires_at |-> Never]

AuthenticationError == "AuthenticationError"

\* the grant an auth stands for: the access token itself, a login with
\* username and password, a client-credentials grant; an auth that is a tuple
\* is httpx basic auth
Grants == {"static", "password", "client_credentials"}

\* the auth objects a client is given: what _get_auth makes of an access token
\* and of a username and password, and the Auth objects of the two exchanges
AuthObjects ==
    {[grant |-> "static", obj |-> _get_auth(None, None, "token").auth],
     [grant |-> "basic", obj |-> _get_auth("u", "p", None).auth],
     [grant |-> "password", obj |-> [kind |-> "Auth", a |-> "u", b |-> "p"]],
     [grant |-> "client_credentials",
      obj |-> [kind |-> "Auth", a |-> "client_id", b |-> "client_secret"]]}

\* what the auth endpoint (or the transport) answers to an exchange
ExchangeResponses == {"200", "200_error", "400", "500", "transport"}
TokenValues == {"tokA", "tokB"}
TimeToLive == {Num(0, 2), Num(0, 3), Num(Base, 0)}
StatusText(r) == IF r = "400" THEN "Bad Request" ELSE "Internal Server Error"

\* the records a store may hold when the auth object is made: none, one that
\* has expired, one that has not
StoreRecords ==
    {NoRecord,
     [value |-> "stale", expires_at |-> Num(0, 0)],
     [value |-> "cached", expires_at |-> Num(0, 3)]}

\* an exception and its message
AuthExc(type, msg) == [type |-> type, msg |-> msg]
NoAuthExc == AuthExc(NoExc, "")

\* a token that is never taken for valid
TokenValid_never(tok, exp, t) == FALSE

\* the token is valid: present, and t < exp - SafetyMargin
TokenValid(tok, exp, t) ==
    /\ tok # None
    /\ exp = Never \/ Less(Plus(t, Num(0, SafetyMargin)), exp)

\* an access token given an expiry like an exchanged one
Auth_init_expiring(g, obj) ==
    IF g = "static" THEN [token |-> obj.a, expires |-> Num(0, 2)]
    ELSE [token |-> None, expires |-> Never]

\* a new auth object: an access token is the token, for good; the other grants
\* hold no token before their first exchange
Auth_init(g, obj) ==
    IF g = "static" THEN [token |-> Auth_token(obj), expires |-> Never]
    ELSE [token |-> None, expires |-> Never]

\* an expiry that leaves out the time of the exchange
expires_at_ttl_only(t, ttl) == ttl

\* expires_at = now + returned_ttl
expires_at(t, ttl) == Plus(t, ttl)

\* a store written whatever use_token_cache says
store_after_exchange_always(cache, record, value, exp) ==
    [value |-> value, expires_at |-> exp]

\* the store after a successful exchange: written when caching is enabled
store_after_exchange(cache, record, value, exp) ==
    IF cache THEN [value |-> value, expires_at |-> exp] ELSE record

\* an exchange whose error payload is not looked at
exchange_error_unparsed(r, terr) ==
    CASE r = "transport" -> terr
      [] r \in {"400", "500"} -> AuthExc(AuthenticationError, StatusText(r))
      [] OTHER -> NoAuthExc

\* what an exchange answered r raises: the transport's own error terr, an
\* AuthenticationError with the status text, one with the message of the error
\* payload, or nothing
exchange_error(r, terr) ==
    CASE r = "transport" -> terr
      [] r \in {"400", "500"} -> AuthExc(AuthenticationError, StatusText(r))
      [] r = "200_error" -> AuthExc(AuthenticationError, "firebolt")
      [] OTHER -> NoAuthExc

TransportErrors == {AuthExc("StreamError", "httpx"), AuthExc("ConnectError", "")}

Bearer(kind, tok) == [kind |-> kind, bearer |-> tok]

RequestKinds == {"account_by_name", "engine", "query"}

\* AsyncClient(auth=auth_obj, account_name=...): _build_auth accepts or raises
client_init ==
    /\ a_pc = "new"
    /\ LET exc == AsyncClient_init(auth_obj, TRUE)
           init == Auth_init(grant, auth_obj)
       IN  IF exc # NoExc
           THEN /\ a_pc' = "failed"
                /\ auth_exc' = AuthExc(exc, "")
                /\ UNCHANGED <<_token, _expires>>
           ELSE /\ a_pc' = "idle"
                /\ _token' = IF auth_obj.kind = "Auth" THEN init.token ELSE None
                /\ _expires' = init.expires
                /\ UNCHANGED auth_exc
    /\ UNCHANGED <<grant, auth_obj, use_token_cache, time, store, store_read,
                   store_written, exchanges, sent, pending>>
    /\ UNCHANGED <<conn_vars, connect_vars, client_vars>>

\* a request through the client: the auth attaches the valid token; with none,
\* it adopts the store's record when caching is enabled and the record has not
\* expired, and otherwise sends the credential exchange first
request(kind) ==
    /\ a_pc = "idle"
    /\ IF auth_obj.kind # "Auth"
       THEN /\ sent' = Bearer(kind, None)
            /\ auth_exc' = NoAuthExc
            /\ UNCHANGED <<_token, _expires, store_read, exchanges, a_pc,
                           pending>>
       ELSE IF TokenValid(_token, _expires, time)
       THEN /\ sent' = Bearer(kind, _token)
            /\ auth_exc' = NoAuthExc
            /\ UNCHANGED <<_token, _expires, store_read, exchanges, a_pc,
                           pending>>
       ELSE IF use_token_cache
               /\ TokenValid(store.value, store.expires_at, time)
       THEN /\ store_read' = TRUE
            /\ _token' = store.value
            /\ _expires' = store.expires_at
            /\ sent' = Bearer(kind, store.value)
            /\ auth_exc' = NoAuthExc
            /\ UNCHANGED <<exchanges, a_pc, pending>>
       ELSE /\ exchanges < MaxExchanges
            /\ store_read' = (store_read \/ use_token_cache)
            /\ exchanges' = exchanges + 1
            /\ sent' = Bearer("auth", None)
            /\ a_pc' = "exchange"
            /\ pending' = kind
            /\ UNCHANGED <<_token, _expires, auth_exc>>
    /\ UNCHANGED <<grant, auth_obj, use_token_cache, time, store, store_written>>
    /\ UNCHANGED <<conn_vars, connect_vars, client_vars>>

\* the exchange is answered: on success the token and its expiry are set, the
\* store written when caching is enabled, and the waiting request sent with
\* the token; otherwise the request raises and nothing else changes
exchange_response(r, value, ttl, terr) ==
    /\ a_pc = "exchange"
    /\ a_pc' = "idle"
    /\ pending' = "none"
    /\ auth_exc' = exchange_error(r, terr)
    /\ IF exchange_error(r, terr) = NoAuthExc
       THEN /\ _token' = value
            /\ _expires' = expires_at(time, ttl)
            /\ store' = store_after_exchange(use_token_cache, store, value,
                                             expires_at(time, ttl))
            /\ store_written' = (store_written \/ store' # store)
            /\ sent' = Bearer(pending, value)
       ELSE UNCHANGED <<_token, _expires, store, store_written, sent>>
    /\ UNCHANGED <<grant, auth_obj, use_token_cache, time, store_read, exchanges>>
    /\ UNCHANGED <<conn_vars, connect_vars, client_vars>>

\* a second passes
tick ==
    /\ time.lo < MaxClock
    /\ time' = Plus(time, Num(0, 1))
    /\ UNCHANGED <<grant, auth_obj, use_token_cache, _token, _expires, store,
                   store_read, store_written, exchanges, sent, a_pc, pending,
                   auth_exc>>
    /\ UNCHANGED <<conn_vars, connect_vars, client_vars>>

AuthInit ==
    /\ \E o \in AuthObjects : grant = o.grant /\ auth_obj = o.obj
    /\ use_token_cache \in BOOLEAN
    /\ _token = None
    /\ _expires = Never
    /\ time = Num(0, 0)
    /\ store \in StoreRecords
    /\ store_read = FALSE
    /\ store_written = FALSE
    /\ exchanges = 0
    /\ sent = Bearer("none", None)
    /\ a_pc = "new"
    /\ pending = "none"
    /\ auth_exc = NoAuthExc

AuthNext ==
    \/ client_init
    \/ \E kind \in RequestKinds : request(kind)
    \/ \E r \in ExchangeResponses, value \in TokenValues, ttl \in TimeToLive,
          terr \in TransportErrors : exchange_response(r, value, ttl, terr)
    \/ tick

\* no auth object is followed
AuthIdle ==
    /\ grant = "none"
    /\ auth_obj = NoAuth
    /\ use_token_cache = FALSE
    /\ _token = None
    /\ _expires = Never
    /\ time = Num(0, 0)
    /\ store = NoRecord
    /\ store_read = FALSE
    /\ store_written = FALSE
    /\ exchanges = 0
    /\ sent = Bearer("none", None)
    /\ a_pc = "none"
    /\ pending = "none"
    /\ auth_exc = NoAuthExc

\* ------------------------------------------------------------------ client
\* a URL: host (empty for a relative URL), path and query
Url(host, pathname, query) == [host |-> host, path |-> pathname, query |-> query]

\* FireboltClientMixin.__init__: self._api_endpoint, self._auth_endpoint
_api_endpoint == "api.app.firebolt.io"
_auth_endpoint == "id.app.firebolt.io"

\* merge_urls(base, url): url moved to the host of base, path and query kept
merge_urls(base, u) == Url(base, u.path, u.query)

\* a request: whether it is an AuthRequest, and its URL
Request(is_auth, u) == [auth |-> is_auth, url |-> u]

NoRequest == Request(FALSE, Url("", "", ""))

\* the requests tasks send through the client
Requests ==
    {Request(is_auth, Url(host, pathname, query)) :
        is_auth \in BOOLEAN,
        host \in {"", _api_endpoint, "engine0.host"},
        pathname \in {"/auth/v1/login", "/query"},
        query \in {"", "database=db1"}}

\* the account-by-name request of account_id
AccountRequest ==
    Request(FALSE, Url(_api_endpoint, "/iam/v2/accounts:getIdByName",
                       "account_name=acc"))

\* every request moved to the auth endpoint
_merge_auth_request_every(req) ==
    [req EXCEPT !.url = merge_urls(_auth_endpoint, req.url)]

\* FireboltClientMixin._merge_auth_request
_merge_auth_request(req) ==
    IF req.auth
    THEN [req EXCEPT !.url = merge_urls(_auth_endpoint, req.url)]
    ELSE req

\* what a task has of account_id: nothing yet, the id, or the exception;
\* waited: it found another task inside the loader
Got(e, id, waited) == [exc |-> e, id |-> id, waited |-> waited]

\* AsyncClient._send_handling_redirects: the request is merged and passed on
_send_handling_redirects(req) ==
    /\ given' = req
    /\ wire' = _merge_auth_request(req)

\* the loader of async_cached_property, entered by task t: the cached value
\* is returned, or the getter sends the account-by-name request
Load_value(t, waited) ==
    /\ IF account_id_cached(cached_id)
       THEN /\ reader' = [reader EXCEPT ![t] = "done"]
            /\ got' = [got EXCEPT ![t] = Got(NoExc, cached_id, waited)]
            /\ UNCHANGED <<lock, lookups, given, wire>>
       ELSE /\ lock' = t
            /\ reader' = [reader EXCEPT ![t] = "fetching"]
            /\ got' = [got EXCEPT ![t] = Got(NoExc, 0, waited)]
            /\ lookups' = lookups + 1
            /\ _send_handling_redirects(AccountRequest)
    /\ UNCHANGED cached_id

\* task t evaluates `await client.account_id`
account_id_get(t) ==
    /\ reader[t] = "idle"
    /\ IF account_id_cached(cached_id) \/ lock = 0
       THEN Load_value(t, FALSE)
       ELSE /\ reader' = [reader EXCEPT ![t] = "waiting"]
            /\ got' = [got EXCEPT ![t] = Got(NoExc, 0, TRUE)]
            /\ UNCHANGED <<cached_id, lock, lookups, given, wire>>
    /\ UNCHANGED <<conn_vars, connect_vars, auth_vars>>

\* task t, which waited for the loader, enters it
account_id_enter(t) ==
    /\ reader[t] = "waiting"
    /\ lock = 0
    /\ Load_value(t, TRUE)
    /\ UNCHANGED <<conn_vars, connect_vars, auth_vars>>

\* the account-by-name response arrives for task t: the getter returns the id,
\* which is kept, or raises; the loader is left
account_id_loaded(t, r, id) ==
    /\ reader[t] = "fetching"
    /\ lock' = 0
    /\ reader' = [reader EXCEPT ![t] = "done"]
    /\ LET e == account_id_fetch(r)
       IN  IF e # Ok
           THEN /\ got' = [got EXCEPT ![t] = Got(e.type, 0, got[t].waited)]
                /\ UNCHANGED cached_id
           ELSE /\ got' = [got EXCEPT ![t] = Got(NoExc, id, got[t].waited)]
                /\ cached_id' = id
    /\ UNCHANGED <<lookups, given, wire>>
    /\ UNCHANGED <<conn_vars, connect_vars, auth_vars>>

\* a task sends a request through the client
send(req) ==
    /\ _send_handling_redirects(req)
    /\ UNCHANGED <<cached_id, lock, reader, got, lookups>>
    /\ UNCHANGED <<conn_vars, connect_vars, auth_vars>>

ClientInit ==
    /\ cached_id = 0
    /\ lock = 0
    /\ reader = [t \in Tasks |-> "idle"]
    /\ got = [t \in Tasks |-> Got(NoExc, 0, FALSE)]
    /\ lookups = 0
    /\ given = NoRequest
    /\ wire = NoRequest

ClientNext ==
    \/ \E t \in Tasks : account_id_get(t)
    \/ \E t \in Tasks : account_id_enter(t)
    \/ \E t \in Tasks, r \in Responses, id \in AccountIds :
          account_id_loaded(t, r, id)
    \/ \E req \in Requests : send(req)

vars == <<conn_vars, connect_vars, auth_vars, client_vars>>

\* ------------------------------------------------------ lifecycle claims
AllCursorsClosed == \A c \in CursorIds : cursor_state[c] # "open"

OpenTracked == {c \in Range(_cursors) : cursor_state[c] = "open"}

\* C1: when aclose() has run from its closed check to its return with no other
\* task in between, the tracked list is empty, every cursor ever created is
\* closed and the connection is closed; and on a closed connection every
\* cursor() call raises ConnectionClosedError and adds nothing.
C1_CloseClosesEverything ==
    /\ [](ret.op = "aclose" /\ ret.exc = NoExc /\ ret.atomic /\ ~ret.saw_closed
            => _cursors = <<>> /\ AllCursorsClosed /\ _is_closed)
    /\ [][_is_closed /\ (\E t \in Tasks : _cursor(t))
            => /\ ret'.exc = ConnectionClosedError
               /\ UNCHANGED <<_cursors, cursor_state, _is_closed>>]_vars

\* an aclose() that no task interleaved with has just closed a connection on
\* which every cursor of the model had been created
C1_Witness ==
    /\ ret.op = "aclose" /\ ret.exc = NoExc /\ ret.atomic /\ ~ret.saw_closed
    /\ Created = CursorIds /\ _is_closed

\* C2: aclose() on a connection that is already closed raises nothing, closes no
\* cursor, does not call the client teardown and leaves the flag and the
\* tracked list as they were.
C2_SecondCloseIsNoop ==
    [][\A t \in Tasks : _is_closed /\ aclose(t)
            => /\ ret'.exc = NoExc
               /\ UNCHANGED <<_cursors, cursor_state, _is_closed, client_closes,
                              client_closed, pc>>]_vars

C2_Witness ==
    /\ ret.op = "aclose" /\ ret.saw_closed /\ ret.exc = NoExc
    /\ _is_closed /\ client_closes = 1

\* C3: when the close() that closed the connection returns, no open cursor is
\* tracked by the connection, whatever ran while it was suspended.
C3_NoOpenCursorTrackedAfterClose ==
    ret.op \in {"aclose", "__aexit__"} /\ ret.exc = NoExc /\ ~ret.saw_closed
        => OpenTracked = {}

\* C4: when the close of one cursor raises inside close(), every other cursor of
\* the snapshot is closed all the same and the client teardown is called.
C4_CloseSurvivesRaisingCursor ==
    ret.op = "aclose" /\ ret.exc = CursorCloseError
        => Cardinality(OpenTracked) <= 1 /\ client_closes > 0

\* C5: no call ever ends in the ValueError of list.remove. A removal of c, by
\* _remove_cursor(c) or by c.close(), raises nothing, leaves the list as it is
\* when c is not tracked, and removes exactly c, keeping the others in order,
\* when it is.
C5_RemoveCursorIdempotent ==
    /\ [](ret.exc # ValueError)
    /\ [][\A t \in Tasks, c \in CursorIds : remove_cursor(t, c) \/ cursor_close(t, c)
            => /\ ret'.exc = NoExc
               /\ c \notin Range(_cursors) => _cursors' = _cursors
               /\ _cursors' = SelectSeq(_cursors, LAMBDA x : x # c)]_vars

\* _remove_cursor was called for a cursor its own close had already removed,
\* while another cursor stayed tracked
C5_Witness ==
    /\ ret.op = "_remove_cursor" /\ ret.exc = NoExc
    /\ cursor_state[ret.val] = "closed"
    /\ _cursors # <<>>

\* C6: commit() raises ConnectionClosedError on a closed connection and nothing
\* on an open one, and in both cases changes nothing: not the flag, the tracked
\* list, a cursor, the client, nor the requests sent.
C6_CommitIsNoop ==
    [][\A t \in Tasks : commit(t)
            => /\ ret'.exc = IF _is_closed THEN ConnectionClosedError ELSE NoExc
               /\ UNCHANGED <<_cursors, cursor_state, _is_closed, client_closes,
                              client_closed, pc, in_with, requests>>]_vars

C6_Witness ==
    /\ ret.op = "commit" /\ ret.exc = ConnectionClosedError
    /\ _is_closed

\* C7: after `async with connection` has been left (__aexit__ returned), the
\* connection is closed and all its cursors are closed.
C7_WithBlockLeavesAllClosed ==
    ret.op = "__aexit__" /\ ret.exc = NoExc => _is_closed /\ AllCursorsClosed

\* C27: a cursor's own close() leaves that cursor untracked and closed, every
\* other cursor tracked if it was tracked and in the state it was in, and the
\* connection as open or closed as it was.
C27_CursorCloseRemovesOnlyItself ==
    [][\A t \in Tasks, c \in CursorIds : cursor_close(t, c)
            => /\ c \notin Range(_cursors') /\ cursor_state'[c] = "closed"
               /\ \A d \in CursorIds \ {c} :
                    /\ cursor_state'[d] = cursor_state[d]
                    /\ d \in Range(_cursors') <=> d \in Range(_cursors)
               /\ _is_closed' = _is_closed]_vars

\* the first of two cursors closed itself: the second is still tracked and
\* open on an open connection
C27_Witness ==
    /\ ret.op = "close" /\ ret.val = 1 /\ cursor_state[1] = "closed"
    /\ _cursors = <<2>> /\ cursor_state[2] = "open"
    /\ ~_is_closed

\* C28: every cursor constructed refers to the connection and to the
\* connection's client, for good; and the client is torn down by the
\* connection's close only: a step that calls or completes the teardown is a
\* step of a task in _aclose, never a cursor's close.
C28_CursorsShareTheConnectionsClient ==
    /\ [](\A c \in Created :
            cursor_refs[c] = [_client |-> _client, connection |-> self])
    /\ [][\A c \in Created : cursor_refs'[c] = cursor_refs[c]]_vars
    /\ [][client_closes' # client_closes \/ client_closed' # client_closed
            => \E t \in Tasks : pc'[t] # pc[t]]_vars

\* one cursor has closed itself and the other, on the same client, is open
\* with the client untouched
C28_Witness ==
    /\ ret.op = "close" /\ client_closes = 0 /\ ~client_closed
    /\ \E c, d \in Created :
            /\ cursor_state[c] = "closed" /\ cursor_state[d] = "open"
            /\ cursor_refs[d]._client = _client
            /\ cursor_refs[c]._client = cursor_refs[d]._client

\* C29: in every state a cursor that is open, and so can execute, has a
\* connection that is not closed.
C29_OpenCursorHasOpenConnection ==
    \A c \in CursorIds : cursor_state[c] = "open" => ~_is_closed

\* the calls of the client teardown that are in flight or have completed
TeardownsInFlight == {t \in Tasks : pc[t] # "ready"}

\* C35: whatever the interleaving of close() calls of independently scheduled
\* tasks, the client teardown is entered at most once: never are two of its
\* calls in flight, nor one in flight after one has completed.
C35_ClientTornDownOnce ==
    Cardinality(TeardownsInFlight) + (IF client_closed THEN 1 ELSE 0) <= 1

\* C37: the flag is set only by a close that resumes from a completed client
\* teardown, a close suspends on the teardown only with every cursor of its
\* snapshot closed, a closed cursor stays closed, and the flag once set stays
\* set; a close whose teardown raised, no other task having run, leaves the
\* flag unset with every cursor closed and none tracked, and the close called
\* after it calls the teardown again.
C37_FlagSetLastAndOnlyOnSuccess ==
    /\ [][~_is_closed /\ _is_closed'
            => /\ client_closed'
               /\ \E t \in Tasks : pc[t] # "ready" /\ pc'[t] = "ready"]_vars
    /\ [][\A t \in Tasks : pc[t] = "ready" /\ pc'[t] # "ready"
            => /\ \A c \in Range(_cursors) : cursor_state'[c] = "closed"
               /\ client_closes' = client_closes + 1
               /\ ~_is_closed']_vars
    /\ [][\A c \in CursorIds :
            cursor_state[c] = "closed" => cursor_state'[c] = "closed"]_vars
    /\ [][_is_closed => _is_closed']_vars
    /\ [](ret.exc = TeardownError /\ ret.atomic
            => /\ ~_is_closed
               /\ _cursors = <<>>
               /\ \A c \in Created : cursor_state[c] = "closed")
    /\ [][\A t \in Tasks :
            aclose(t) /\ ret.exc = TeardownError /\ ret.atomic
                => client_closes' = client_closes + 1 /\ pc'[t] = "aclose"]_vars

\* a close whose teardown raised, cursors closed, and the next close suspended
\* on its own call of the teardown
C37_Witness ==
    /\ ret.op = "aclose" /\ ret.exc = TeardownError /\ ret.atomic
    /\ ~_is_closed /\ ~client_closed
    /\ client_closes = 2
    /\ Created # {} /\ _cursors = <<>>
    /\ \E t \in Tasks : pc[t] = "aclose"

\* C38: while the connection is open, the tracked list holds each cursor
\* created and not closed, once, and no other.
C38_TrackedSetIsOpenCursors ==
    ~_is_closed
        => /\ Range(_cursors) = {c \in CursorIds : cursor_state[c] = "open"}
           /\ Len(_cursors) = Cardinality(Range(_cursors))

\* two cursors created, the first closed: the second alone is tracked
C38_Witness ==
    /\ ~_is_closed /\ client_closes = 0
    /\ cursor_state[1] = "closed" /\ cursor_state[2] = "open"
    /\ _cursors = <<2>>

\* -------------------------------------------------------- connect claims
ConnectReturned == c_pc = "done"

\* C8: a connect call given both an engine_name and an engine_url raises
\* ConfigurationError, whatever its other arguments, having sent no request.
C8_BothEngineSelectorsRejected ==
    ConnectReturned /\ Truthy(args.engine_name) /\ Truthy(args.engine_url)
        => result.exc = ConfigurationError /\ requests = <<>>

\* both selectors given with a database and an access token that would pass
C8_Witness ==
    /\ ConnectReturned
    /\ Truthy(args.engine_name) /\ Truthy(args.engine_url)
    /\ Truthy(args.database) /\ Truthy(args.access_token)
    /\ ~Truthy(args.username) /\ ~Truthy(args.password)
    /\ result.exc = ConfigurationError

\* the accepted credential forms: username with password and no access token,
\* or an access token and neither username nor password
AcceptedCredentials(a) ==
    \/ Truthy(a.username) /\ Truthy(a.password) /\ ~Truthy(a.access_token)
    \/ Truthy(a.access_token) /\ ~Truthy(a.username) /\ ~Truthy(a.password)

\* C9: a connect call whose credentials are not one accepted form raises
\* ConfigurationError, having sent no request.
C9_BadCredentialsRejected ==
    ConnectReturned /\ ~AcceptedCredentials(args)
        => result.exc = ConfigurationError /\ requests = <<>>

\* an access token given together with a username, the rest of the call valid
C9_Witness ==
    /\ ConnectReturned
    /\ Truthy(args.access_token) /\ Truthy(args.username)
    /\ Truthy(args.database) /\ Truthy(args.engine_name)
    /\ ~Truthy(args.engine_url)
    /\ result.exc = ConfigurationError

AnsweredAt(k, req) ==
    /\ Len(requests) = k /\ Len(responses) = k
    /\ requests[k] = req

\* the response to the last request of the call
LastResponse == responses[Len(responses)]

\* the exception a failing status, a lost request or an undecodable body makes
\* of a lookup
LookupFailure(status) ==
    CASE status = "404" -> Exc(HTTPStatusError, 404)
      [] status = "500" -> Exc(HTTPStatusError, 500)
      [] status = "RequestError" -> Exc(RequestError, 0)
      [] status = "200_malformed" -> Exc(JSONDecodeError, 0)
      [] status = "200_nokey" -> Exc(KeyError, 0)

HttpNetworkJson == {"404", "500", "RequestError", "200_malformed"}

\* C11: in the by-name path, once the account is resolved, a 404 to the
\* engine-by-name lookup makes connect raise FireboltEngineError naming the
\* engine, and a 500 to it makes connect raise InterfaceError.
C11_EngineByNameNotFound ==
    ConnectReturned /\ AnsweredAt(2, "engine_by_name")
        => /\ responses[1].status = "200"
           /\ responses[2].status = "404"
                => /\ result.exc = FireboltEngineError
                   /\ result.about = args.engine_name
           /\ responses[2].status = "500" => result.exc = InterfaceError

\* connect raised FireboltEngineError on a 404 to the engine-by-name lookup
C11_Witness ==
    /\ ConnectReturned /\ AnsweredAt(2, "engine_by_name")
    /\ responses[2].status = "404"
    /\ result.exc = FireboltEngineError /\ result.about = "e1"

\* C12 as stated: in the by-name path, with the account found, every HTTP,
\* network or JSON-decode failure other than a 404 on the engine-by-name
\* lookup, the failures of the engine-by-id fetch included, makes connect raise
\* InterfaceError.
C12_OnlyNameLookup404IsMissingEngine ==
    (/\ ConnectReturned /\ path = "name" /\ responses # <<>>
     /\ LastResponse.status \in HttpNetworkJson
     /\ ~(AnsweredAt(1, "account_by_name") /\ LastResponse.status = "404")
     /\ ~(AnsweredAt(2, "engine_by_name") /\ LastResponse.status = "404"))
        => result.exc = InterfaceError

\* C12 as amended: in the by-name path a 404 is reported by what was looked up,
\* AccountNotFoundError for the account lookup, FireboltEngineError naming the
\* engine for the engine-by-name lookup and for the engine-by-id fetch; every
\* other HTTP status, network or JSON-decode failure of the three requests makes
\* connect raise InterfaceError for that failure.
C12_Any404AfterAccountIsMissingEngine ==
    (/\ ConnectReturned /\ path = "name" /\ responses # <<>>
     /\ LastResponse.status \in HttpNetworkJson)
        => IF LastResponse.status = "404"
           THEN IF Len(responses) = 1
                THEN result.exc = AccountNotFoundError
                ELSE /\ result.exc = FireboltEngineError
                     /\ result.about = args.engine_name
           ELSE /\ result.exc = InterfaceError
                /\ result.cause = LookupFailure(LastResponse.status)

\* the engine-by-id fetch of the by-name path answered 404
C12_Witness ==
    /\ ConnectReturned /\ path = "name" /\ AnsweredAt(3, "engine")
    /\ LastResponse.status = "404"
    /\ result.exc = FireboltEngineError

\* C13: in both paths a 2xx response of a lookup that lacks the field read
\* makes connect raise InterfaceError.
C13_MissingFieldIsInterfaceError ==
    (/\ ConnectReturned /\ Len(responses) >= 2
     /\ LastResponse.status = "200_nokey")
        => result.exc = InterfaceError

\* the binding of the response that alone is flagged default, 0 when none or
\* several are
OnlyDefault(flags) ==
    LET d == {i \in 1..Len(flags) : flags[i]}
    IN  IF Cardinality(d) = 1 THEN CHOOSE i \in d : TRUE ELSE 0

\* C14: in the database-default path, a bindings response with no binding
\* flagged default makes connect raise FireboltDatabaseError, with no engine
\* requested; with exactly one flagged default, the engine requested is that
\* binding's and connect resolves to the endpoint reported for it.
C14_DefaultEngineBinding ==
    path = "default" /\ Len(responses) >= 3 /\ responses[3].status = "200"
        => LET flags == responses[3].flags
           IN  /\ (\A i \in 1..Len(flags) : ~flags[i])
                    => /\ ConnectReturned /\ Len(requests) = 3
                       /\ result.exc = FireboltDatabaseError
                       /\ result.about = args.database
               /\ OnlyDefault(flags) # 0
                    => /\ requests[4] = "engine"
                       /\ lookup_id = OnlyDefault(flags)
                       /\ ConnectReturned /\ LastResponse.status = "200"
                            => conn_engine_url =
                                 fix_url_schema(EngineEndpoint(OnlyDefault(flags)))

\* the second of two bindings alone was flagged default and its engine's
\* endpoint, reported with a scheme, is what connect resolved to
C14_Witness ==
    /\ ConnectReturned /\ path = "default" /\ AnsweredAt(4, "engine")
    /\ responses[3].flags = <<FALSE, TRUE>>
    /\ LastResponse.status = "200"
    /\ conn_engine_url = "http://engine2.host"

\* C15: in the database-default path every HTTP, network, JSON or key-lookup
\* failure of the database-by-name, bindings or engine-by-id request makes
\* connect raise InterfaceError for that failure; so does a 404 on the
\* database-by-name lookup.
C15_DefaultPathFailuresUniform ==
    (/\ ConnectReturned /\ path = "default" /\ Len(responses) >= 2
     /\ LastResponse.status # "200")
        => /\ result.exc = InterfaceError
           /\ result.cause = LookupFailure(LastResponse.status)

\* the database-by-name lookup answered 404
C15_Witness ==
    /\ ConnectReturned /\ AnsweredAt(2, "database_by_name")
    /\ LastResponse.status = "404"
    /\ result.exc = InterfaceError

\* C16: a connect call given an engine_url, with a database and credentials
\* that pass, sends no request and returns a connection bound to that url with
\* its scheme normalised.
C16_ExplicitUrlNoNetwork ==
    ConnectReturned /\ path = "url"
        => /\ requests = <<>>
           /\ result.exc = NoExc
           /\ result.engine_url = fix_url_schema(args.engine_url)

\* C17: a connect call with a username and a password, a database and no
\* engine selector, every request of which the backend answers well, with one
\* binding flagged default, returns a connection.
C17_PasswordConnectSucceeds ==
    (/\ ConnectReturned
     /\ Truthy(args.database)
     /\ Truthy(args.username) /\ Truthy(args.password)
     /\ ~Truthy(args.access_token)
     /\ ~Truthy(args.engine_name) /\ ~Truthy(args.engine_url)
     /\ \A k \in 1..Len(responses) : responses[k].status = "200"
     /\ Len(responses) >= 3 => OnlyDefault(responses[3].flags) # 0)
        => /\ result.exc = NoExc
           /\ result.database = args.database

\* C18: a 404 to the account-by-name request leaves connect as
\* AccountNotFoundError naming the account, in either resolution path; any
\* other error status leaves the client's account_id as an HTTP status error
\* of that status; a 200 makes the id of the response the client's account id.
C18_AccountResolutionOutcome ==
    /\ ConnectReturned /\ AnsweredAt(1, "account_by_name")
            => /\ responses[1].status = "404"
                    => /\ result.exc = AccountNotFoundError
                       /\ result.about = args.account_name
               /\ responses[1].status = "500"
                    => result.cause = Exc(HTTPStatusError, 500)
    /\ Len(responses) >= 1 /\ responses[1].status = "200"
            => account_id = responses[1].id /\ account_id \in AccountIds

\* the account lookup of a by-name resolution answered 404
C18_Witness ==
    /\ ConnectReturned /\ path = "name" /\ AnsweredAt(1, "account_by_name")
    /\ responses[1].status = "404"
    /\ result.exc = AccountNotFoundError /\ result.about = "acc"

\* C19: every resolution client sends exactly one account-by-name request,
\* however often its account_id is read (no call of connect holds two such
\* requests), and the id a client has resolved changes only when a new client
\* is constructed, which resolves again.
C19_AccountResolvedOncePerClient ==
    /\ [](account_lookups = clients)
    /\ [](Cardinality({k \in 1..Len(requests) :
                            requests[k] = "account_by_name"}) <= 1)
    /\ [][account_id # 0 /\ account_id' # account_id
            => clients' = clients + 1]_vars

\* the client of a second by-name call has resolved its account again and read
\* the id a second time for the engine-by-id fetch
C19_Witness ==
    /\ calls = 2 /\ path = "name" /\ c_pc = "engine"
    /\ clients = 2 /\ account_lookups = 2
    /\ Len(requests) = 3

\* C20: a request for an engine, a database or bindings is sent only after the
\* account-by-name request, the first of the call, has been answered with a
\* 200; and no request is sent by a client whose auth holds no token.
C20_AccountAndTokenFirst ==
    /\ \A k \in 1..Len(requests) :
            requests[k] # "account_by_name"
                => /\ k > 1 /\ requests[1] = "account_by_name"
                   /\ Len(responses) >= 1 /\ responses[1].status = "200"
    /\ requests # <<>> => Truthy(auth_token)

\* the bindings request is out, after the account and the database lookups
C20_Witness ==
    /\ c_pc = "bindings" /\ requests[3] = "bindings"
    /\ responses[1].status = "200"
    /\ auth_token = "token"

\* a url with a scheme
HasScheme(url) == StartsWith(url, "http://") \/ StartsWith(url, "https://")

\* the call reached the construction of the Connection: by an engine_url
\* given, or by a resolution whose last request, the engine's, was answered
ConstructionReached ==
    /\ ConnectReturned
    /\ \/ path = "url"
       \/ /\ requests # <<>> /\ AnsweredAt(Len(requests), "engine")
          /\ LastResponse.status = "200"

\* the engine url before connect_inner normalises it
RawEngineUrl ==
    IF path = "url" THEN args.engine_url ELSE EngineEndpoint(lookup_id)

\* C33: fix_url_schema leaves a url with http:// or https:// as it is,
\* prepends https:// to any other and is idempotent; whenever connect
\* constructs a Connection, on any path, the engine url and the api endpoint
\* it constructs it with are the normalised ones and start with a scheme.
C33_SchemeNormalised ==
    ConstructionReached
        => /\ conn_engine_url = fix_url_schema(RawEngineUrl)
           /\ conn_engine_url =
                IF HasScheme(RawEngineUrl) THEN RawEngineUrl
                ELSE "https://" \o RawEngineUrl
           /\ fix_url_schema(conn_engine_url) = conn_engine_url
           /\ HasScheme(conn_engine_url)
           /\ HasScheme(ApiEndpointOf(args))
           /\ fix_url_schema(ApiEndpointOf(args)) = ApiEndpointOf(args)
           /\ HasScheme(args.api_endpoint)
                => ApiEndpointOf(args) = args.api_endpoint

\* an engine resolved by name whose endpoint comes without a scheme, the api
\* endpoint given without one
C33_Witness ==
    /\ ConstructionReached /\ path = "name"
    /\ ~HasScheme(EngineEndpoint(lookup_id))
    /\ ~HasScheme(args.api_endpoint)
    /\ conn_engine_url = "https://engine1.host"

\* response k of the call is a failure of its step
FailedStep(k) ==
    \/ responses[k].status # "200"
    \/ /\ requests[k] = "bindings"
       /\ \A i \in 1..Len(responses[k].flags) : ~responses[k].flags[i]

\* C34: in one connect call no lookup is sent twice, and a step that fails is
\* the last of the call: connect has raised, and no request follows it.
C34_NoRetry ==
    /\ \A j, k \in 1..Len(requests) : requests[j] = requests[k] => j = k
    /\ \A k \in 1..Len(responses) :
         FailedStep(k)
            => /\ k = Len(responses) /\ Len(requests) = k
               /\ ConnectReturned
               /\ result.exc \in {InterfaceError, FireboltEngineError,
                                  FireboltDatabaseError, AccountNotFoundError,
                                  KeyError}

\* the bindings lookup, third of the default path, fails with a 500
C34_Witness ==
    /\ ConnectReturned /\ AnsweredAt(3, "bindings")
    /\ LastResponse.status = "500"
    /\ result.exc = InterfaceError

\* C39: the client a resolution function opens is closed when connect has
\* returned or raised, whatever the outcome; it is open only while a lookup
\* is awaited, so it is closed before the Connection constructs its own; a
\* connect that raised has returned no Connection.
C39_ResolutionClientClosed ==
    /\ ConnectReturned => res_client # "open"
    /\ ConnectReturned /\ requests # <<>> => res_client = "closed"
    /\ res_client = "open" => c_pc \notin {"call", "done"}
    /\ ConstructionReached /\ path # "url" => res_client = "closed"
    /\ ConnectReturned /\ result.exc # NoExc
            => result.engine_url = None /\ result.database = None

\* a resolution that ended in FireboltDatabaseError
C39_Witness ==
    /\ ConnectReturned /\ result.exc = FireboltDatabaseError
    /\ res_client = "closed" /\ clients = 1

\* C40: in the default path, whenever the bindings response flags a binding
\* default, the engine requested is the first binding flagged, whatever comes
\* before it and however many are flagged, and no error is raised for it.
C40_FirstDefaultBindingWins ==
    (/\ path = "default"
     /\ Len(responses) >= 3 /\ responses[3].status = "200"
     /\ \E i \in 1..Len(responses[3].flags) : responses[3].flags[i])
        => LET flags == responses[3].flags
           IN  /\ Len(requests) = 4 /\ requests[4] = "engine"
               /\ lookup_id \in 1..Len(flags)
               /\ flags[lookup_id]
               /\ \A j \in 1..(lookup_id - 1) : ~flags[j]
               /\ Len(responses) = 3 => c_pc = "engine" /\ result.exc = NoExc

\* two bindings flagged default: the first is the engine, and its endpoint
\* the url resolved
C40_Witness ==
    /\ path = "default" /\ ConstructionReached
    /\ responses[3].flags = <<TRUE, TRUE>>
    /\ lookup_id = 1
    /\ conn_engine_url = fix_url_schema(EngineEndpoint(1))

EngineNotRunningError == "EngineNotRunningError"

\* C31: a connect by engine name whose engine is found raises
\* EngineNotRunningError when the engine is not running and InterfaceError
\* when it is attached to another database than the one asked for; a
\* connection is returned only for a running engine of that database.
C31_EngineMustRunOnRequestedDatabase ==
    (/\ ConstructionReached /\ path = "name")
        => LET engine == LastResponse.engine
           IN  /\ engine.database # args.database
                    => result.exc = InterfaceError
               /\ engine.database = args.database /\ engine.status # "Running"
                    => result.exc = EngineNotRunningError
               /\ result.exc = NoExc
                    => /\ engine.status = "Running"
                       /\ engine.database = args.database

\* C30: a connect call with database None, credentials that pass and no engine
\* selector returns an open connection.
C30_ConnectWithoutDatabase ==
    (/\ ConnectReturned
     /\ args.database = None
     /\ AcceptedCredentials(args)
     /\ ~Truthy(args.engine_name) /\ ~Truthy(args.engine_url))
        => result.exc = NoExc

\* ------------------------------------------------------------ auth claims
\* the exchange just answered was answered r
Answered(r, value, ttl, terr) == exchange_response(r, value, ttl, terr)

\* C21: with caching enabled, a successful exchange leaves in the store the
\* token the following requests carry; with caching disabled the store is
\* never written: whatever record it held, none or a stale one, stays.
C21_TokenCacheRoundTrip ==
    /\ [](/\ use_token_cache /\ grant # "static" /\ sent.kind \in RequestKinds
               => store.value = sent.bearer /\ store.expires_at = _expires
          /\ ~use_token_cache => ~store_written)
    /\ [][~use_token_cache => store' = store]_vars
    /\ [][\A r \in ExchangeResponses, value \in TokenValues,
            ttl \in TimeToLive, terr \in TransportErrors :
              Answered(r, value, ttl, terr) /\ r = "200" /\ use_token_cache
                  => store' = [value |-> value, expires_at |-> _expires']]_vars

\* caching enabled over a stale record: the exchanged token is in the store
\* and on the request sent after the exchange
C21_Witness ==
    /\ use_token_cache /\ store_written /\ exchanges = 1
    /\ store.value \in TokenValues
    /\ sent = Bearer("query", store.value)

\* C22: an exchange that meets a transport error raises that error, type and
\* message; one answered with an error status raises AuthenticationError with
\* the status text; one answered 200 with an error payload raises
\* AuthenticationError; after each of them the auth holds no valid token.
C22_ExchangeFailures ==
    [][\A r \in ExchangeResponses, value \in TokenValues,
         ttl \in TimeToLive, terr \in TransportErrors :
           Answered(r, value, ttl, terr) /\ r # "200"
               => /\ r = "transport" => auth_exc' = terr
                  /\ r \in {"400", "500"}
                       => auth_exc' = AuthExc(AuthenticationError, StatusText(r))
                  /\ r = "200_error" => auth_exc'.type = AuthenticationError
                  /\ ~TokenValid(_token', _expires', time')
                  /\ _token' = _token /\ _expires' = _expires
                  /\ store' = store]_vars

\* a failed exchange, then one cut by a StreamError "httpx": no token
C22_Witness ==
    /\ auth_exc = AuthExc("StreamError", "httpx")
    /\ exchanges = 2 /\ a_pc = "idle"
    /\ _token = None

\* C23: a request made while the token is valid carries it and sends no
\* exchange; one made when it is not adopts the store's record when caching
\* is enabled and the record has not expired, and otherwise sends one
\* exchange, having read the store when caching is enabled; a successful
\* exchange leaves the token valid.
C23_TokenReuse ==
    /\ [][\A kind \in RequestKinds : request(kind) =>
            IF TokenValid(_token, _expires, time)
            THEN /\ exchanges' = exchanges
                 /\ sent' = Bearer(kind, _token)
                 /\ _token' = _token /\ _expires' = _expires
            ELSE IF use_token_cache
                    /\ TokenValid(store.value, store.expires_at, time)
            THEN /\ exchanges' = exchanges
                 /\ store_read'
                 /\ _token' = store.value
                 /\ TokenValid(_token', _expires', time')
                 /\ sent' = Bearer(kind, _token')
            ELSE /\ exchanges' = exchanges + 1
                 /\ sent' = Bearer("auth", None)
                 /\ use_token_cache => store_read']_vars
    /\ [][\A r \in ExchangeResponses, value \in TokenValues,
            ttl \in TimeToLive, terr \in TransportErrors :
              Answered(r, value, ttl, terr) /\ r = "200"
                  => /\ TokenValid(_token', _expires', time')
                     /\ exchanges' = exchanges]_vars

\* a token exchanged, used, expired and exchanged again, valid at the end
C23_Witness ==
    /\ exchanges = 2 /\ a_pc = "idle"
    /\ sent.kind \in RequestKinds /\ sent.bearer = _token
    /\ time.lo >= 2
    /\ TokenValid(_token, _expires, time)

\* C24: a successful exchange leaves the auth with the token of the response
\* and an expiry of the time of the exchange plus the time-to-live of the
\* response: at time 0 with a time-to-live of 2^32, an expiry of 2^32.
C24_ExpiryIsNowPlusTtl ==
    [][\A r \in ExchangeResponses, value \in TokenValues,
         ttl \in TimeToLive, terr \in TransportErrors :
           Answered(r, value, ttl, terr) /\ r = "200"
               => /\ _token' = value
                  /\ _expires' = Plus(time, ttl)
                  /\ time = Num(0, 0) /\ ttl = Num(Base, 0)
                       => _expires' = Num(Base, 0)]_vars

\* the clock at 0, the time-to-live 2^32
C24_Witness ==
    /\ time = Num(0, 0) /\ exchanges = 1 /\ a_pc = "idle"
    /\ _token \in TokenValues
    /\ _expires = Num(Base, 0)

\* C25: a request transmitted that is not the exchange carries a bearer token,
\* the auth's current one; while the auth holds no token only the exchange is
\* transmitted.
C25_RequestsCarryTheToken ==
    /\ sent.kind \in RequestKinds => sent.bearer # None /\ sent.bearer = _token
    /\ _token = None => sent.kind \in {"none", "auth"}

\* an account lookup sent with the token of the exchange before it
C25_Witness ==
    /\ grant = "password" /\ exchanges = 1
    /\ sent.kind = "account_by_name" /\ sent.bearer \in TokenValues

\* C26: the auth of an access token sends no exchange, neither reads nor
\* writes the store, and holds the access token, valid at any time.
C26_StaticTokenNoExchange ==
    grant = "static"
        => /\ exchanges = 0 /\ sent.kind # "auth"
           /\ ~store_read /\ ~store_written
           /\ a_pc = "idle"
                => _token = "token" /\ TokenValid(_token, _expires, time)
           /\ sent.kind \in RequestKinds => sent.bearer = "token"

\* a query sent with the access token when the clock has run out, caching
\* enabled over a record that has not expired
C26_Witness ==
    /\ grant = "static" /\ use_token_cache /\ store.value = "cached"
    /\ time.lo = MaxClock
    /\ sent = Bearer("query", "token")

\* ----------------------------------------------------------- client claims
\* C32: a request that is an AuthRequest is passed on with the auth endpoint
\* as its host and its path and query as given; any other request is passed
\* on as given.
C32_AuthRequestsGoToAuthEndpoint ==
    /\ given.auth
            => /\ wire.url.host = _auth_endpoint
               /\ wire.url.path = given.url.path
               /\ wire.url.query = given.url.query
               /\ wire.auth
    /\ ~given.auth => wire = given

\* an auth request given for the api host with a query
C32_Witness ==
    /\ given = Request(TRUE, Url(_api_endpoint, "/auth/v1/login", "database=db1"))
    /\ wire = Request(TRUE, Url(_auth_endpoint, "/auth/v1/login", "database=db1"))

\* C36: when a task read account_id while another was resolving it, and every
\* task has its answer, the client has sent one account-by-name request and
\* every task has the same answer.
C36_SingleFlight ==
    (/\ \A t \in Tasks : reader[t] = "done"
     /\ \E t \in Tasks : got[t].waited)
        => /\ lookups = 1
           /\ \A t, u \in Tasks : got[t].exc = got[u].exc /\ got[t].id = got[u].id

\* ---------------------------------------------------------- specifications
\* the lifecycle of one constructed Connection
Init == ConnInit /\ NoConnect /\ AuthIdle /\ ClientInit

Next == ConnNext

Spec == Init /\ [][Next]_vars

\* one call of connect against a backend that answers each request in any way
ConnectSpecInit == ConnInit /\ ConnectInit /\ AuthIdle /\ ClientInit

ConnectSpec == ConnectSpecInit /\ [][ConnectNext]_vars

\* one auth object, its client and the token store over time
AuthSpecInit == ConnInit /\ NoConnect /\ AuthInit /\ ClientInit

AuthSpec == AuthSpecInit /\ [][AuthNext]_vars

\* one AsyncClient, the tasks that read its account_id and send through it
ClientSpecInit == ConnInit /\ NoConnect /\ AuthIdle /\ ClientInit

ClientSpec == ClientSpecInit /\ [][ClientNext]_vars

====
